---- MODULE Spec2Model ----
(***************************************************************************)
(* Model of src/index.js: the newsletter summarizer run                    *)
(* (runEnhancedSummarizer) with its token-bounded chunked summarization,   *)
(* topic bucketing, two-speaker script composition and the per-segment     *)
(* audio synthesis, concatenation and cleanup.                             *)
(*                                                                         *)
(* Text is a sequence of lexical items (strings): a marker ("CATEGORY:",   *)
(* "SUMMARY:" in any letter case), a whitespace item, a period, another    *)
(* punctuation item, or a word (a maximal run of letters and underscores). *)
(* A word is therefore never directly followed by a word or a marker.      *)
(***************************************************************************)
EXTENDS Integers, Sequences, FiniteSets, TLC

\* ------------------------------------------------------------------ bounds

MaxEmails == 2
MaxChunks == 3
MaxItems == 2
MaxUnlinkFailures == 1

\* ------------------------------------------------------- program constants

TOPIC_CATEGORIES ==
  <<"TECH_NEWS", "BUSINESS", "SECURITY", "PRODUCT_UPDATES",
    "INDUSTRY_NEWS", "EDUCATIONAL", "OTHER">>

TopicSet == {TOPIC_CATEGORIES[k] : k \in 1..Len(TOPIC_CATEGORIES)}

maxTokensPerChunk == 15000

\* ------------------------------------------------------------------- text

Whitespace == {" ", "\n"}

CategoryMarkers == {"CATEGORY:", "category:"}

SummaryMarkers == {"SUMMARY:", "summary:"}

\* The letters [A-Za-z_] of the model's alphabet.
WordItems ==
  {"TECH_NEWS", "BUSINESS", "Security", "sports", "a", "b", "c"}

\* The leading run of [A-Z_] characters (case-insensitive) of an item: a word
\* is such a run, a marker starts with its letters, anything else has none.
LeadingLetters(item) ==
  CASE item \in WordItems -> item
    [] item = "CATEGORY:" -> "CATEGORY"
    [] item = "category:" -> "category"
    [] item = "SUMMARY:" -> "SUMMARY"
    [] item = "summary:" -> "summary"
    [] OTHER -> ""

toUpperCase(w) ==
  CASE w = "Security" -> "SECURITY"
    [] w = "sports" -> "SPORTS"
    [] w = "category" -> "CATEGORY"
    [] w = "summary" -> "SUMMARY"
    [] w = "a" -> "A"
    [] w = "b" -> "B"
    [] w = "c" -> "C"
    [] OTHER -> w

\* String.prototype.trim on a text: leading and trailing whitespace removed.
RECURSIVE trimStart(_)
trimStart(s) ==
  IF s # <<>> /\ Head(s) \in Whitespace THEN trimStart(Tail(s)) ELSE s

RECURSIVE trimEnd(_)
trimEnd(s) ==
  IF s # <<>> /\ s[Len(s)] \in Whitespace
  THEN trimEnd(SubSeq(s, 1, Len(s) - 1))
  ELSE s

trim(s) == trimEnd(trimStart(s))

\* Index of the first non-whitespace item at or after position i (Len+1 if none).
RECURSIVE skipWhitespace(_, _)
skipWhitespace(s, i) ==
  IF i <= Len(s) /\ s[i] \in Whitespace THEN skipWhitespace(s, i + 1) ELSE i

\* result.match(/CATEGORY:\s*([A-Z_]+)/i): the capture group of the leftmost
\* match, or "" when nothing matches (null).
RECURSIVE categoryMatchFrom(_, _)
categoryMatchFrom(s, i) ==
  IF i > Len(s) THEN ""
  ELSE IF s[i] \in CategoryMarkers
       THEN LET j == skipWhitespace(s, i + 1)
                cap == IF j <= Len(s) THEN LeadingLetters(s[j]) ELSE ""
            IN IF cap # "" THEN cap ELSE categoryMatchFrom(s, i + 1)
       ELSE categoryMatchFrom(s, i + 1)

categoryMatch(result) == categoryMatchFrom(result, 1)

\* result.match(/SUMMARY:\s*([\s\S]+)/i): position of the leftmost marker that
\* is followed by at least one character (0 when there is none: null).
RECURSIVE summaryMatchFrom(_, _)
summaryMatchFrom(s, i) ==
  IF i >= Len(s) THEN 0
  ELSE IF s[i] \in SummaryMarkers THEN i
       ELSE summaryMatchFrom(s, i + 1)

summaryMatch(result) == summaryMatchFrom(result, 1)

\* categoryMatch ? categoryMatch[1].trim().toUpperCase() : 'OTHER'
parseTopic(result) ==
  LET m == categoryMatch(result)
  IN IF m # "" THEN toUpperCase(m) ELSE "OTHER"

\* summaryMatch ? summaryMatch[1].trim() : result
parseSummary(result) ==
  LET m == summaryMatch(result)
  IN IF m # 0 THEN trim(SubSeq(result, m + 1, Len(result))) ELSE result

\* summary.split(/(?<=\.)\s+/): the text is cut at every whitespace run that
\* directly follows a period; a cut at the very end leaves an empty last part.
RECURSIVE splitFrom(_, _, _)
splitFrom(s, i, cur) ==
  IF i > Len(s) THEN <<cur>>
  ELSE IF s[i] \in Whitespace /\ i > 1 /\ s[i - 1] = "."
       THEN <<cur>> \o splitFrom(s, skipWhitespace(s, i), <<>>)
       ELSE splitFrom(s, i + 1, Append(cur, s[i]))

splitSentences(summary) == splitFrom(summary, 1, <<>>)

\* parts.join(' ')
RECURSIVE joinSpace(_)
joinSpace(parts) ==
  IF parts = <<>> THEN <<>>
  ELSE IF Len(parts) = 1 THEN parts[1]
       ELSE parts[1] \o <<" ">> \o joinSpace(Tail(parts))

\* topic.toLowerCase().replace(/_/g, ' ')
topicName(topic) ==
  CASE topic = "TECH_NEWS" -> "tech news"
    [] topic = "BUSINESS" -> "business"
    [] topic = "SECURITY" -> "security"
    [] topic = "PRODUCT_UPDATES" -> "product updates"
    [] topic = "INDUSTRY_NEWS" -> "industry news"
    [] topic = "EDUCATIONAL" -> "educational"
    [] topic = "OTHER" -> "other"
    [] OTHER -> topic

\* ----------------------------------------------------------- script lines

Line(speaker, text) == [speaker |-> speaker, text |-> text]

OpeningLines ==
  << Line("host", <<"Welcome to your daily newsletter roundup! It's ", "timeNow",
                    ", and I'm here with our expert analyst to break down today's key stories.">>),
     Line("guest", <<"Thanks for having me! I've reviewed all the newsletters, and we've got some interesting developments to discuss.">>) >>

TransitionLine(topic) ==
  Line("host", <<"Let's dive into ", topicName(topic),
                 ". What are the key updates in this area?">>)

FirstSentenceLine(item) ==
  Line("guest", <<"From ", item.from, ", we have ">> \o splitSentences(item.summary)[1])

PromptLine == Line("host", <<"That's interesting! What else did they mention?">>)

RestLine(item) ==
  Line("guest", joinSpace(Tail(splitSentences(item.summary))))

OtherUpdatesLine == Line("host", <<"What other updates do we have in this area?">>)

ClosingLines ==
  << Line("host", <<"That wraps up our newsletter summary for today. Any final thoughts?">>),
     Line("guest", <<"Thanks for breaking this down with me. Remember to check the email summary for more details on any stories that caught your interest.">>),
     Line("host", <<"Thanks for listening, and we'll catch you in the next summary!">>) >>

\* An off-by-one in the last-item test: the 'other updates' line after every item.
itemLines_AlwaysOther(item, index, n) ==
  <<FirstSentenceLine(item)>>
    \o (IF Len(splitSentences(item.summary)) > 1
        THEN <<PromptLine, RestLine(item)>> ELSE <<>>)
    \o (IF index < n THEN <<OtherUpdatesLine>> ELSE <<>>)

\* The body of summaries.forEach((item, index) => ...): index counts from 0.
itemLines(item, index, n) ==
  <<FirstSentenceLine(item)>>
    \o (IF Len(splitSentences(item.summary)) > 1
        THEN <<PromptLine, RestLine(item)>> ELSE <<>>)
    \o (IF index < n - 1 THEN <<OtherUpdatesLine>> ELSE <<>>)

RECURSIVE itemsLinesFrom(_, _)
itemsLinesFrom(summaries, k) ==
  IF k > Len(summaries) THEN <<>>
  ELSE itemLines(summaries[k], k - 1, Len(summaries))
         \o itemsLinesFrom(summaries, k + 1)

topicLines(topic, summaries) ==
  <<TransitionLine(topic)>> \o itemsLinesFrom(summaries, 1)

\* Object.entries(summariesByTopic).filter(non-empty).forEach(...): the keys in
\* insertion order, which is the order of TOPIC_CATEGORIES.
RECURSIVE topicsLinesFrom(_, _)
topicsLinesFrom(byTopic, k) ==
  IF k > Len(TOPIC_CATEGORIES) THEN <<>>
  ELSE LET topic == TOPIC_CATEGORIES[k]
       IN (IF Len(byTopic[topic]) > 0
           THEN topicLines(topic, byTopic[topic]) ELSE <<>>)
            \o topicsLinesFrom(byTopic, k + 1)

createSpeechScript(byTopic) ==
  OpeningLines \o topicsLinesFrom(byTopic, 1) \o ClosingLines

\* truncateContent(content, maxTokens): the only place with a fallback for a
\* failing tokenizer (4 characters per token). Nothing in src/index.js calls it.
\* Content is given by its length in tokens and in characters; the result is
\* the length kept and the unit it was measured in.
truncateContent(content, maxTokens, tokenizerWorks) ==
  IF tokenizerWorks
  THEN [unit |-> "tokens", kept |-> IF content.tokens > maxTokens
                                     THEN maxTokens ELSE content.tokens]
  ELSE [unit |-> "characters", kept |-> IF content.characters > maxTokens * 4
                                         THEN maxTokens * 4 ELSE content.characters]

\* ------------------------------------------------------------------ inputs

\* Model responses are built from a CATEGORY part and a SUMMARY part.
CategoryParts ==
  { <<>>,
    <<"CATEGORY:", " ", "TECH_NEWS", "\n">>,
    <<"category:", "Security", "\n">>,
    <<"CATEGORY:", " ", "sports", "\n">>,
    <<"CATEGORY:", " ", "[", "BUSINESS", "]", "\n">>,
    <<"CATEGORY:", "\n">> }

SummaryParts ==
  { <<>>,
    <<"SUMMARY:", " ", "a", ".">>,
    <<"SUMMARY:", " ", "a", ".", " ", "b", ".", "\n">>,
    <<"a", ".", " ", "b">>,
    <<"a", ".", " ">>,
    <<"SUMMARY:">> }

Responses == {c \o s : c \in CategoryParts, s \in SummaryParts}

ContinuationResponses ==
  { <<>>,
    <<"c", ".">>,
    <<"c", ".", " ">>,
    <<"CATEGORY:", " ", "BUSINESS", "\n", "SUMMARY:", " ", "c", ".">> }

\* The responses of the whole-run specification: a smaller choice of the above.
RunResponses ==
  { <<"CATEGORY:", " ", "TECH_NEWS", "\n", "SUMMARY:", " ", "a", ".">>,
    <<"category:", "Security", "\n", "SUMMARY:", " ", "a", ".", " ", "b", ".", "\n">>,
    <<"CATEGORY:", " ", "sports", "\n", "SUMMARY:", " ", "a", ".">>,
    <<"a", ".", " ">> }

RunContinuations ==
  { <<"c", ".">>,
    <<"CATEGORY:", " ", "BUSINESS", "\n", "SUMMARY:", " ", "c", ".">> }

Senders == <<"A", "B">>

Email(id, tokens) ==
  [id |-> id, subject |-> id,
   from |-> Senders[((id - 1) % Len(Senders)) + 1], tokens |-> tokens]

\* Token counts around the multiples of the chunk budget, up to MaxChunks chunks.
TokenCounts ==
  {t \in {1} \cup {k * maxTokensPerChunk + d : k \in 1..MaxChunks, d \in {-1, 0, 1}} :
     t <= MaxChunks * maxTokensPerChunk}

RunTokenCounts == {1, maxTokensPerChunk + 1}

Mailboxes(counts) ==
  UNION {[1..n -> counts] : n \in 0..MaxEmails}

\* --------------------------------------------------------------- variables

VARIABLES
  pc,                \* where the run is
  failure,           \* what made the run exit with status 1 ("none" if nothing)
  newsletters,       \* the emails fetchUnreadEmails returned
  cur,               \* position in newsletters of the email being processed
  summariesByTopic,  \* topic -> items
  classified,        \* history: <<subject, topic>> of every email that reached the push
  marked,            \* history: ids passed to a successful markEmailAsRead
  i,                 \* the chunk loop's token offset
  finalSummary,
  currentTopic,
  modelCalls,        \* history: the model calls of the current summarizeNewsletter
  result,            \* what summarizeNewsletter returned
  speechScript,
  audioPaths,
  ttsCalls,          \* history: the requests given to synthesizeSpeech
  written,           \* history: the writeFile calls, [path, content]
  files,             \* the segment files that exist in audio/
  muxInputs,         \* the inputs given to ffmpeg, <<>> before it is invoked
  unlinkAttempts,    \* history: the paths given to unlink
  audioFilePath,     \* what generateAudioSummary returned ("" before)
  finalAudio,        \* whether the final audio file has been produced
  mailSent           \* whether sendMail has been invoked

vars ==
  <<pc, failure, newsletters, cur, summariesByTopic, classified, marked, i,
    finalSummary, currentTopic, modelCalls, result, speechScript, audioPaths,
    ttsCalls, written, files, muxInputs, unlinkAttempts, audioFilePath,
    finalAudio, mailSent>>

summarizerVars == <<i, finalSummary, currentTopic, modelCalls, result>>

audioVars ==
  <<speechScript, audioPaths, ttsCalls, written, files, muxInputs,
    unlinkAttempts, audioFilePath, finalAudio>>

runVars == <<newsletters, cur, summariesByTopic, classified, marked, mailSent>>

NoResult == [topic |-> "", summary |-> <<>>]

EmptyBuckets == [t \in TopicSet |-> <<>>]

\* Nothing has been summarized, synthesized or sent yet.
Fresh ==
  /\ failure = "none"
  /\ classified = <<>>
  /\ marked = <<>>
  /\ i = 0
  /\ finalSummary = <<>>
  /\ currentTopic = ""
  /\ modelCalls = <<>>
  /\ result = NoResult
  /\ speechScript = <<>>
  /\ audioPaths = <<>>
  /\ ttsCalls = <<>>
  /\ written = <<>>
  /\ files = {}
  /\ muxInputs = <<>>
  /\ unlinkAttempts = <<>>
  /\ audioFilePath = ""
  /\ finalAudio = FALSE
  /\ mailSent = FALSE

Init ==
  /\ pc = "start"
  /\ newsletters = <<>>
  /\ cur = 0
  /\ summariesByTopic = <<>>
  /\ Fresh

\* The catch of runEnhancedSummarizer: log and process.exit(1).
Exit(cause) ==
  /\ pc' = "failed"
  /\ failure' = cause

\* ------------------------------------------------------------ the run loop

\* setup() and fetchUnreadEmails(10, 7) succeed; the buckets are initialised.
Fetch ==
  /\ pc = "start"
  /\ \E m \in Mailboxes(RunTokenCounts) :
       /\ newsletters' = [k \in 1..Len(m) |-> Email(k, m[k])]
       /\ IF Len(m) = 0
          THEN pc' = "done" /\ cur' = 0
          ELSE pc' = "summarize" /\ cur' = 1
       /\ summariesByTopic' = IF Len(m) = 0 THEN summariesByTopic ELSE EmptyBuckets
  /\ UNCHANGED <<failure, classified, marked, mailSent, summarizerVars, audioVars>>

\* setup() returns false or fetchUnreadEmails throws.
FetchFail ==
  /\ pc = "start"
  /\ Exit("fetch")
  /\ UNCHANGED <<runVars, summarizerVars, audioVars>>

\* ------------------------------------------------------ summarizeNewsletter

tokensLength == newsletters[cur].tokens

Min(a, b) == IF a < b THEN a ELSE b

\* import('gpt-tokenizer') and encode succeed; the loop variables are set up.
SummarizeStart ==
  /\ pc = "summarize"
  /\ pc' = IF tokensLength <= maxTokensPerChunk THEN "single" ELSE "chunk"
  /\ i' = 0
  /\ finalSummary' = <<>>
  /\ currentTopic' = ""
  /\ modelCalls' = <<>>
  /\ result' = NoResult
  /\ UNCHANGED <<failure, runVars, audioVars>>

\* import('gpt-tokenizer') or encode throws: the catch logs and rethrows.
TokenizerFail ==
  /\ pc = "summarize"
  /\ Exit("tokenizer")
  /\ UNCHANGED <<runVars, summarizerVars, audioVars>>

\* processSingleChunk(emailContent): one model call over the whole content.
processSingleChunk(response) ==
  /\ pc = "single"
  /\ modelCalls' =
       Append(modelCalls,
              [prompt |-> "single", context |-> <<>>,
               chunk |-> <<0, tokensLength>>, response |-> response])
  /\ result' = [topic |-> parseTopic(response), summary |-> parseSummary(response)]
  /\ pc' = "push"
  /\ UNCHANGED <<failure, runVars, i, finalSummary, currentTopic, audioVars>>

\* A merge that joins without the newline.
mergeSummary_NoNewline(summary, response) == summary \o response

\* `${finalSummary}\n${result}`
mergeSummary(summary, response) == summary \o <<"\n">> \o response

\* tokens.slice(i, i + maxTokensPerChunk), as the range [from, to) of positions
chunkTokens(offset, length) ==
  <<offset, Min(offset + maxTokensPerChunk, length)>>

\* A loop step one token short: consecutive chunks share a token.
nextOffset_Overlap(offset) == offset + maxTokensPerChunk - 1

nextOffset(offset) == offset + maxTokensPerChunk

\* A topic that is parsed again from every chunk's response.
chunkTopic_Rederived(isFirstChunk, response) == parseTopic(response)

\* currentTopic after a chunk: parsed from the first response, kept afterwards.
chunkTopic(isFirstChunk, response) ==
  IF isFirstChunk THEN parseTopic(response) ELSE currentTopic

\* One iteration of the chunk loop: the model call for the chunk at offset i
\* and the update of the running summary.
chunkIteration(response) ==
  LET isFirstChunk == i = 0
      isLastChunk == i + maxTokensPerChunk >= tokensLength
      topic == chunkTopic(isFirstChunk, response)
      summary == IF isFirstChunk THEN parseSummary(response)
                 ELSE mergeSummary(finalSummary, response)
  IN /\ pc = "chunk"
     /\ modelCalls' =
          Append(modelCalls,
                 [prompt |-> IF isFirstChunk THEN "first"
                             ELSE IF isLastChunk THEN "final" ELSE "next",
                  context |-> IF isFirstChunk THEN <<>> ELSE finalSummary,
                  chunk |-> chunkTokens(i, tokensLength),
                  response |-> response])
     /\ currentTopic' = topic
     /\ finalSummary' = summary
     /\ i' = nextOffset(i)
     /\ IF nextOffset(i) < tokensLength
        THEN pc' = "chunk" /\ result' = result
        ELSE pc' = "push" /\ result' = [topic |-> topic, summary |-> summary]
     /\ UNCHANGED <<failure, runVars, audioVars>>

\* A model failure that is caught and skipped: the loop goes on without the email.
ModelFail_Skipped ==
  /\ pc \in {"single", "chunk"}
  /\ failure' = "model"
  /\ pc' = "mark"
  /\ UNCHANGED <<runVars, summarizerVars, audioVars>>

\* chat.completions.create rejects: summarizeNewsletter logs and rethrows.
ModelFail ==
  /\ pc \in {"single", "chunk"}
  /\ Exit("model")
  /\ UNCHANGED <<runVars, summarizerVars, audioVars>>

\* ------------------------------------------------------- bucket and mark

Item(email, summary) ==
  [subject |-> email.subject, from |-> email.from, summary |-> summary]

\* An unshift in place of the push: the newest item first.
pushItem_Front(byTopic, topic, item) ==
  [byTopic EXCEPT ![topic] = <<item>> \o @]

\* summariesByTopic[topic].push({...}): a TypeError when the key is missing.
pushItem(byTopic, topic, item) ==
  [byTopic EXCEPT ![topic] = Append(@, item)]

\* The loop body with markEmailAsRead ahead of the push: the email is marked
\* whether or not the push then throws.
Push_MarkedFirst ==
  /\ pc = "push"
  /\ classified' = Append(classified, <<newsletters[cur].subject, result.topic>>)
  /\ marked' = Append(marked, newsletters[cur].id)
  /\ IF result.topic \in DOMAIN summariesByTopic
     THEN /\ summariesByTopic' =
               pushItem(summariesByTopic, result.topic,
                        Item(newsletters[cur], result.summary))
          /\ failure' = failure
          /\ IF cur < Len(newsletters)
             THEN pc' = "summarize" /\ cur' = cur + 1
             ELSE pc' = "audio" /\ cur' = cur
     ELSE /\ summariesByTopic' = summariesByTopic
          /\ cur' = cur
          /\ Exit("push")
  /\ UNCHANGED <<newsletters, mailSent, summarizerVars, audioVars>>

Push ==
  /\ pc = "push"
  /\ classified' = Append(classified, <<newsletters[cur].subject, result.topic>>)
  /\ IF result.topic \in DOMAIN summariesByTopic
     THEN /\ summariesByTopic' =
               pushItem(summariesByTopic, result.topic,
                        Item(newsletters[cur], result.summary))
          /\ pc' = "mark"
          /\ failure' = failure
     ELSE /\ summariesByTopic' = summariesByTopic
          /\ Exit("push")
  /\ UNCHANGED <<newsletters, cur, marked, mailSent, summarizerVars, audioVars>>

\* markEmailAsRead(email.id) succeeds; the loop moves to the next email.
MarkRead ==
  /\ pc = "mark"
  /\ marked' = Append(marked, newsletters[cur].id)
  /\ IF cur < Len(newsletters)
     THEN pc' = "summarize" /\ cur' = cur + 1
     ELSE pc' = "audio" /\ cur' = cur
  /\ UNCHANGED <<failure, newsletters, summariesByTopic, classified, mailSent,
                 summarizerVars, audioVars>>

\* gmail.users.messages.modify rejects: markEmailAsRead logs and rethrows.
MarkFail ==
  /\ pc = "mark"
  /\ Exit("mark")
  /\ UNCHANGED <<runVars, summarizerVars, audioVars>>

\* ----------------------------------------------------- generateAudioSummary

VoiceName(speaker) ==
  IF speaker = "host" THEN "en-US-Neural2-D" ELSE "en-US-Neural2-F"

\* The synthesizeSpeech request of a script line.
ttsRequest(segment) ==
  [text |-> segment.text,
   voice |-> VoiceName(segment.speaker),
   speakingRate |-> IF segment.speaker = "host" THEN "1.1" ELSE "1.0",
   pitch |-> IF segment.speaker = "host" THEN "1" ELSE "0.9"]

\* The audio the TTS service returns for a request.
audioContent(request) == [audioOf |-> request]

\* A segment path that leaves the index out: every segment in one file.
segmentPath_NoIndex(index) == 0

\* path.join(audioDir, `segment_${index}.mp3`), named by its index
segmentPath(index) == index

finalAudioPath == "newsletter-summary.mp3"

\* createSpeechScript and mkdir(audioDir): the synthesis loop is about to start.
AudioStart ==
  /\ pc = "audio"
  /\ speechScript' = createSpeechScript(summariesByTopic)
  /\ audioPaths' = <<>>
  /\ pc' = "tts"
  /\ UNCHANGED <<failure, runVars, summarizerVars, ttsCalls, written, files,
                 muxInputs, unlinkAttempts, audioFilePath, finalAudio>>

MkdirFail ==
  /\ pc = "audio"
  /\ speechScript' = createSpeechScript(summariesByTopic)
  /\ Exit("mkdir")
  /\ UNCHANGED <<runVars, summarizerVars, audioPaths, ttsCalls, written, files,
                 muxInputs, unlinkAttempts, audioFilePath, finalAudio>>

\* The next script line to synthesize: speechScript.entries() yields
\* [index, segment] with index counting from 0.
segmentIndex == Len(audioPaths)

\* One iteration of the synthesis loop: TTS call, writeFile, audioPaths.push.
SynthesizeSegment ==
  LET index == segmentIndex
      request == ttsRequest(speechScript[index + 1])
      path == segmentPath(index)
  IN /\ pc = "tts"
     /\ ttsCalls' = Append(ttsCalls, request)
     /\ written' = Append(written, [path |-> path, content |-> audioContent(request)])
     /\ files' = files \cup {path}
     /\ audioPaths' = Append(audioPaths, path)
     /\ pc' = IF index + 1 < Len(speechScript) THEN "tts" ELSE "mux"
     /\ UNCHANGED <<failure, runVars, summarizerVars, speechScript, muxInputs,
                    unlinkAttempts, audioFilePath, finalAudio>>

\* synthesizeSpeech rejects.
TtsFail ==
  /\ pc = "tts"
  /\ ttsCalls' = Append(ttsCalls, ttsRequest(speechScript[segmentIndex + 1]))
  /\ Exit("tts")
  /\ UNCHANGED <<runVars, summarizerVars, speechScript, audioPaths, written, files,
                 muxInputs, unlinkAttempts, audioFilePath, finalAudio>>

\* writeFile rejects after a successful TTS call; the file may exist in part.
WriteFail ==
  /\ pc = "tts"
  /\ ttsCalls' = Append(ttsCalls, ttsRequest(speechScript[segmentIndex + 1]))
  /\ \E partial \in BOOLEAN :
       files' = IF partial THEN files \cup {segmentPath(segmentIndex)} ELSE files
  /\ Exit("write")
  /\ UNCHANGED <<runVars, summarizerVars, speechScript, audioPaths, written,
                 muxInputs, unlinkAttempts, audioFilePath, finalAudio>>

\* ffmpeg is given every path of audioPaths as an input, in order, and ends:
\* the 'end' handler starts the cleanup.
MuxEnd ==
  /\ pc = "mux"
  /\ muxInputs' = audioPaths
  /\ finalAudio' = TRUE
  /\ pc' = "cleanup"
  /\ UNCHANGED <<failure, runVars, summarizerVars, speechScript, audioPaths,
                 ttsCalls, written, files, unlinkAttempts, audioFilePath>>

\* A mux failure that cleans the segments up before it rethrows.
MuxError_Cleans ==
  /\ pc = "mux"
  /\ muxInputs' = audioPaths
  /\ files' = files \ {audioPaths[k] : k \in 1..Len(audioPaths)}
  /\ Exit("mux")
  /\ UNCHANGED <<runVars, summarizerVars, speechScript, audioPaths, ttsCalls,
                 written, unlinkAttempts, audioFilePath, finalAudio>>

\* ffmpeg emits 'error': the promise rejects, the catch logs and rethrows.
MuxError ==
  /\ pc = "mux"
  /\ muxInputs' = audioPaths
  /\ Exit("mux")
  /\ UNCHANGED <<runVars, summarizerVars, speechScript, audioPaths, ttsCalls,
                 written, files, unlinkAttempts, audioFilePath, finalAudio>>

\* The path the cleanup loop is at.
cleanupPath == audioPaths[Len(unlinkAttempts) + 1]

\* After an unlink attempt: the next path, or resolve() and the return of
\* finalAudioPath to the run.
afterUnlink ==
  IF Len(unlinkAttempts) + 1 < Len(audioPaths)
  THEN pc' = "cleanup" /\ audioFilePath' = audioFilePath /\ failure' = failure
  ELSE pc' = "send" /\ audioFilePath' = finalAudioPath /\ failure' = failure

\* unlink(audioPath) succeeds.
UnlinkOk ==
  /\ pc = "cleanup"
  /\ unlinkAttempts' = Append(unlinkAttempts, cleanupPath)
  /\ files' = files \ {cleanupPath}
  /\ afterUnlink
  /\ UNCHANGED <<runVars, summarizerVars, speechScript, audioPaths, ttsCalls,
                 written, muxInputs, finalAudio>>

\* The unlink attempts that failed so far: their files are still there.
unlinkFailures ==
  Cardinality({k \in 1..Len(unlinkAttempts) : unlinkAttempts[k] \in files})

\* An unlink failure that is not caught: the run fails.
UnlinkFail_Rejects ==
  /\ pc = "cleanup"
  /\ unlinkAttempts' = Append(unlinkAttempts, cleanupPath)
  /\ Exit("unlink")
  /\ UNCHANGED <<runVars, summarizerVars, speechScript, audioPaths, ttsCalls,
                 written, files, muxInputs, audioFilePath, finalAudio>>

\* unlink(audioPath) rejects: a warning, and the loop goes on.
UnlinkFail ==
  /\ pc = "cleanup"
  /\ unlinkFailures < MaxUnlinkFailures
  /\ unlinkAttempts' = Append(unlinkAttempts, cleanupPath)
  /\ files' = files
  /\ afterUnlink
  /\ UNCHANGED <<runVars, summarizerVars, speechScript, audioPaths, ttsCalls,
                 written, muxInputs, finalAudio>>

\* ------------------------------------------------ sendEnhancedSummaryEmail

\* mailer.verify() and mailer.sendMail(mailOptions) succeed.
SendMail ==
  /\ pc = "send"
  /\ mailSent' = TRUE
  /\ pc' = "done"
  /\ UNCHANGED <<failure, newsletters, cur, summariesByTopic, classified, marked,
                 summarizerVars, audioVars>>

\* verify() rejects (sendMail is not invoked) or sendMail itself rejects.
SendFail ==
  /\ pc = "send"
  /\ \E invoked \in BOOLEAN : mailSent' = invoked
  /\ Exit("mail")
  /\ UNCHANGED <<newsletters, cur, summariesByTopic, classified, marked,
                 summarizerVars, audioVars>>

\* ----------------------------------------------------------- specifications

Next ==
  \/ Fetch
  \/ FetchFail
  \/ SummarizeStart
  \/ TokenizerFail
  \/ \E response \in RunResponses : processSingleChunk(response)
  \/ \E response \in (IF i = 0 THEN RunResponses ELSE RunContinuations) :
       chunkIteration(response)
  \/ ModelFail
  \/ Push
  \/ MarkRead
  \/ MarkFail
  \/ AudioStart
  \/ MkdirFail
  \/ SynthesizeSegment
  \/ TtsFail
  \/ WriteFail
  \/ MuxEnd
  \/ MuxError
  \/ UnlinkOk
  \/ UnlinkFail
  \/ SendMail
  \/ SendFail

Spec == Init /\ [][Next]_vars

\* summarizeNewsletter on one email, over every response of Responses and
\* every token count of TokenCounts.
InitSummarize ==
  /\ pc = "summarize"
  /\ \E t \in TokenCounts : newsletters = <<Email(1, t)>>
  /\ cur = 1
  /\ summariesByTopic = EmptyBuckets
  /\ Fresh

NextSummarize ==
  \/ SummarizeStart
  \/ TokenizerFail
  \/ \E response \in Responses : processSingleChunk(response)
  \/ \E response \in (IF i = 0 THEN Responses ELSE ContinuationResponses) :
       chunkIteration(response)
  \/ ModelFail
  \/ Push

SpecSummarize == InitSummarize /\ [][NextSummarize]_vars

\* createSpeechScript over every bucket of at most MaxItems items.
ScriptSummaries ==
  { <<>>,
    <<"a", " ", "b">>,
    <<"a", ".">>,
    <<"a", ".", " ">>,
    <<"a", ".", " ", "b", ".">>,
    <<"a", ".", " ", "b", ".", "\n", "c", ".">> }

RECURSIVE pushAll(_, _, _, _)
pushAll(byTopic, topics, summaries, k) ==
  IF k > Len(topics) THEN byTopic
  ELSE pushAll(pushItem(byTopic, topics[k], Item(Email(k, 1), summaries[k])),
               topics, summaries, k + 1)

InitScript ==
  /\ pc = "audio"
  /\ newsletters = <<>>
  /\ cur = 0
  /\ \E n \in 0..MaxItems :
       \E ts \in [1..n -> TopicSet], ss \in [1..n -> ScriptSummaries] :
         summariesByTopic = pushAll(EmptyBuckets, ts, ss, 1)
  /\ Fresh

NextScript ==
  \/ AudioStart
  \/ MkdirFail

SpecScript == InitScript /\ [][NextScript]_vars

\* ------------------------------------------------------------------ claims

\* The subjects of the items of every bucket.
BucketedSubjects ==
  UNION {{summariesByTopic[t][k].subject : k \in 1..Len(summariesByTopic[t])}
         : t \in DOMAIN summariesByTopic}

\* C1: the topic summarizeNewsletter returns is always one of TOPIC_CATEGORIES,
\* so the bucket the run loop looks up for it exists.
C1_TopicAlwaysKnown ==
  pc = "push" => /\ result.topic \in TopicSet
                 /\ result.topic \in DOMAIN summariesByTopic

\* C2: sendMail is invoked only after every fetched email is in a bucket and the
\* final audio has been produced, and never in a run in which a model call, a
\* TTS call or the muxing failed.
C2_NoPartialDelivery ==
  /\ mailSent =>
       /\ \A k \in 1..Len(newsletters) : newsletters[k].subject \in BucketedSubjects
       /\ finalAudio
       /\ audioFilePath = finalAudioPath
  /\ failure \in {"model", "tts", "mux"} => ~mailSent

C2_Witness ==
  /\ mailSent
  /\ pc = "done"
  /\ Len(newsletters) = 2
  /\ newsletters[2].tokens > maxTokensPerChunk

\* The synthesis loop has gone through the whole script.
SynthesisDone ==
  \/ pc \in {"mux", "cleanup", "send"}
  \/ pc = "done" /\ newsletters # <<>>
  \/ pc = "failed" /\ failure \in {"mux", "mail"}

\* C3: the TTS calls are the script's lines in script order, at most one per
\* line; once every call has succeeded there are exactly n calls and n segment
\* files, each in a file of its own, and ffmpeg is handed n inputs of which the
\* k-th is the file holding the audio of the k-th line.
C3_OneSegmentPerLine ==
  LET n == Len(speechScript) IN
  /\ Len(ttsCalls) <= n
  /\ \A k \in 1..Len(ttsCalls) :
       /\ ttsCalls[k].text = speechScript[k].text
       /\ ttsCalls[k].voice = VoiceName(speechScript[k].speaker)
  /\ SynthesisDone =>
       /\ Len(ttsCalls) = n
       /\ Len(written) = n
       /\ \A j, k \in 1..n : j # k => written[j].path # written[k].path
       /\ \A k \in 1..n : written[k].content.audioOf.text = speechScript[k].text
       /\ muxInputs # <<>> =>
            /\ Len(muxInputs) = n
            /\ \A k \in 1..n : muxInputs[k] = written[k].path

C3_Witness ==
  /\ pc = "cleanup"
  /\ Len(muxInputs) = Len(speechScript)
  /\ Len(speechScript) >= 10

\* generateAudioSummary has returned to the run.
AudioReturned ==
  \/ pc = "send"
  \/ pc = "done" /\ newsletters # <<>>
  \/ pc = "failed" /\ failure = "mail"

\* C4: once the muxing has succeeded nothing in generateAudioSummary fails the
\* run, whatever the unlinks do; when it returns, unlink has been attempted on
\* every segment path, in order, and the final path is what it returns.
C4_CleanupFailureAbsorbed ==
  /\ finalAudio => (pc = "failed" => failure = "mail")
  /\ AudioReturned =>
       /\ unlinkAttempts = audioPaths
       /\ Len(audioPaths) = Len(speechScript)
       /\ audioFilePath = finalAudioPath

\* A deletion failed, later ones were still attempted, and the path came back.
C4_Witness ==
  /\ pc = "send"
  /\ audioFilePath = finalAudioPath
  /\ \E k \in 1..(Len(unlinkAttempts) - 1) : unlinkAttempts[k] \in files

\* C5: when the muxing fails the run fails with that error, no path is
\* returned, unlink is never attempted and every segment written is still there.
C5_MuxFailureKeepsSegments ==
  (muxInputs # <<>> /\ ~finalAudio) =>
    /\ pc = "failed"
    /\ failure = "mux"
    /\ audioFilePath = ""
    /\ unlinkAttempts = <<>>
    /\ \A k \in 1..Len(written) : written[k].path \in files

C5_Witness ==
  /\ pc = "failed"
  /\ failure = "mux"
  /\ Cardinality(files) >= 9

\* The entries of the classification history for a topic, in processing order.
ClassifiedAs(t) == SelectSeq(classified, LAMBDA c : c[2] = t)

\* C6: once the buckets exist their keys are exactly the known tags; each
\* bucket holds exactly the processed emails classified to its tag, in
\* processing order, and an email that reached the push with a known tag is in.
C6_BucketsMatchClassification ==
  (pc # "start" /\ newsletters # <<>>) =>
    /\ DOMAIN summariesByTopic = TopicSet
    /\ \A k \in 1..Len(classified) : classified[k][1] = newsletters[k].subject
    /\ \A t \in TopicSet :
         /\ Len(summariesByTopic[t]) = Len(ClassifiedAs(t))
         /\ \A k \in 1..Len(summariesByTopic[t]) :
              /\ summariesByTopic[t][k].subject = ClassifiedAs(t)[k][1]
              /\ summariesByTopic[t][k].from = newsletters[ClassifiedAs(t)[k][1]].from

C6_Witness ==
  /\ pc = "audio"
  /\ \E t \in TopicSet : Len(summariesByTopic[t]) = 2

\* C7: on the chunked path the topic is the one parsed from the response to
\* chunk 1, during the loop and in what is returned.
C7_TopicFromFirstChunk ==
  (modelCalls # <<>> /\ modelCalls[1].prompt = "first") =>
    /\ currentTopic = parseTopic(modelCalls[1].response)
    /\ result # NoResult => result.topic = parseTopic(modelCalls[1].response)

\* Three chunks, and the second response carries a CATEGORY: line of its own
\* that names another topic.
C7_Witness ==
  /\ result # NoResult
  /\ Len(modelCalls) = 3
  /\ categoryMatch(modelCalls[2].response) # ""
  /\ parseTopic(modelCalls[2].response) # result.topic

\* The bucket topics that have items, in enumeration order.
NonEmptyTopics(b) == SelectSeq(TOPIC_CATEGORIES, LAMBDA t : Len(b[t]) > 0)

SentenceCount(item) == Len(splitSentences(item.summary))

\* The number of lines the j-th item of bucket t is to take.
ExpectedItemSize(b, t, j) ==
  1 + (IF SentenceCount(b[t][j]) > 1 THEN 2 ELSE 0)
    + (IF j < Len(b[t]) THEN 1 ELSE 0)

\* The number of lines the first j items of bucket t are to take.
RECURSIVE ExpectedItemsSize(_, _, _)
ExpectedItemsSize(b, t, j) ==
  IF j = 0 THEN 0
  ELSE ExpectedItemsSize(b, t, j - 1) + ExpectedItemSize(b, t, j)

\* The number of lines the first k topics of ne are to take.
RECURSIVE ExpectedTopicsSize(_, _, _)
ExpectedTopicsSize(b, ne, k) ==
  IF k = 0 THEN 0
  ELSE ExpectedTopicsSize(b, ne, k - 1)
         + 1 + ExpectedItemsSize(b, ne[k], Len(b[ne[k]]))

\* The number of guest lines the first j items of bucket t are to take.
RECURSIVE ExpectedGuestLines(_, _, _)
ExpectedGuestLines(b, t, j) ==
  IF j = 0 THEN 0
  ELSE ExpectedGuestLines(b, t, j - 1)
         + (IF SentenceCount(b[t][j]) > 1 THEN 2 ELSE 1)

RECURSIVE ExpectedGuestTotal(_, _, _)
ExpectedGuestTotal(b, ne, k) ==
  IF k = 0 THEN 0
  ELSE ExpectedGuestTotal(b, ne, k - 1)
         + ExpectedGuestLines(b, ne[k], Len(b[ne[k]]))

\* A host line that opens a topic.
IsTransition(line) ==
  /\ line.speaker = "host"
  /\ Len(line.text) = 3
  /\ line.text[1] = "Let's dive into "

\* C8: the script is the two opening lines, then for each non-empty bucket in
\* enumeration order one transition line and, for each item in bucket order, a
\* guest line (sender and first sentence), a host prompt and a second guest
\* line exactly when there is more than one sentence, and an 'other updates'
\* line exactly when the item is not the last of its bucket, then the three
\* closing lines; nothing else.
C8_ScriptStructure ==
  speechScript # <<>> =>
    LET b == summariesByTopic
        s == speechScript
        ne == NonEmptyTopics(b)
        topicAt(k) == 3 + ExpectedTopicsSize(b, ne, k - 1)
        itemAt(k, j) == topicAt(k) + 1 + ExpectedItemsSize(b, ne[k], j - 1)
    IN /\ Len(s) = 2 + ExpectedTopicsSize(b, ne, Len(ne)) + 3
       /\ SubSeq(s, 1, 2) = OpeningLines
       /\ s[1].speaker = "host" /\ s[2].speaker = "guest"
       /\ \A k \in 1..Len(ne) :
            /\ IsTransition(s[topicAt(k)])
            /\ s[topicAt(k)].text[2] = topicName(ne[k])
            /\ \A j \in 1..Len(b[ne[k]]) :
                 LET at == itemAt(k, j)
                     item == b[ne[k]][j]
                     parts == splitSentences(item.summary)
                     multi == Len(parts) > 1
                 IN /\ s[at].speaker = "guest"
                    /\ s[at].text = <<"From ", item.from, ", we have ">> \o parts[1]
                    /\ multi => /\ s[at + 1] = PromptLine
                                /\ s[at + 2].speaker = "guest"
                                /\ s[at + 2].text = joinSpace(Tail(parts))
                    /\ j < Len(b[ne[k]]) =>
                         s[at + (IF multi THEN 3 ELSE 1)] = OtherUpdatesLine
       /\ SubSeq(s, Len(s) - 2, Len(s)) = ClosingLines
       /\ s[Len(s) - 2].speaker = "host"
       /\ s[Len(s) - 1].speaker = "guest"
       /\ s[Len(s)].speaker = "host"
       /\ Cardinality({p \in 1..Len(s) : s[p].speaker = "guest"})
            = 2 + ExpectedGuestTotal(b, ne, Len(ne))
       /\ Cardinality({p \in 1..Len(s) : IsTransition(s[p])})
            = Len(ne)

\* Two items in one bucket, the first of several sentences, next to an empty
\* bucket.
C8_Witness ==
  /\ pc = "tts"
  /\ Len(summariesByTopic["TECH_NEWS"]) = 2
  /\ SentenceCount(summariesByTopic["TECH_NEWS"][1]) > 1
  /\ SentenceCount(summariesByTopic["TECH_NEWS"][2]) = 1
  /\ Len(summariesByTopic["SECURITY"]) = 0

\* C9: a failure of the token counting never ends the run: the summarization
\* falls back to the character heuristic and goes on.
C9_TokenizerFailureAbsorbed ==
  ~(pc = "failed" /\ failure = "tokenizer")

\* The running summary after the first k responses of the current email.
RECURSIVE MergedResponses(_)
MergedResponses(k) ==
  IF k = 1 THEN parseSummary(modelCalls[1].response)
  ELSE MergedResponses(k - 1) \o <<"\n">> \o modelCalls[k].response

\* C10: for T > B tokens the model calls are made over consecutive,
\* non-overlapping chunks that start at token 0, are B tokens long except
\* possibly the last, and end at T; the context of call k is the merge of the
\* responses 1..k-1; on return there have been ceil(T/B) calls and the summary
\* is the parsed first summary followed by the raw later responses,
\* newline-joined.
C10_ChunkedCallsAndMerge ==
  (pc # "summarize" /\ tokensLength > maxTokensPerChunk) =>
    LET T == tokensLength
        B == maxTokensPerChunk
        N == (T + B - 1) \div B
        n == Len(modelCalls)
        lo(k) == modelCalls[k].chunk[1]
        hi(k) == modelCalls[k].chunk[2]
    IN /\ n <= N
       /\ \A k \in 1..n :
            /\ lo(k) = (IF k = 1 THEN 0 ELSE hi(k - 1))
            /\ hi(k) - lo(k) >= 1
            /\ hi(k) - lo(k) <= B
            /\ hi(k) <= T
            /\ hi(k) < T => hi(k) - lo(k) = B
            /\ modelCalls[k].prompt =
                 (IF k = 1 THEN "first" ELSE IF k = N THEN "final" ELSE "next")
            /\ k > 1 => modelCalls[k].context = MergedResponses(k - 1)
       /\ n >= 1 => finalSummary = MergedResponses(n)
       /\ pc = "chunk" => n < N
       /\ result # NoResult =>
            /\ n = N
            /\ hi(N) = T
            /\ result.summary = MergedResponses(N)

\* Three chunks, the last one shorter than the budget.
C10_Witness ==
  /\ result # NoResult
  /\ Len(modelCalls) = 3
  /\ modelCalls[3].chunk[2] - modelCalls[3].chunk[1] < maxTokensPerChunk
  /\ summaryMatch(modelCalls[1].response) # 0

\* C11: the emails marked as read are, in order, the first emails fetched, and
\* each of them is in a bucket; the email being summarized or pushed is the
\* one right after the last marked one, so at most one email is bucketed and
\* not yet marked; when sendMail is invoked every fetched and every bucketed
\* email has been marked.
C11_MarkedAfterOwnSummary ==
  /\ Len(marked) <= Len(newsletters)
  /\ \A k \in 1..Len(marked) :
       /\ marked[k] = newsletters[k].id
       /\ newsletters[k].subject \in BucketedSubjects
       /\ k <= Len(classified) /\ classified[k][1] = newsletters[k].subject
  /\ pc \in {"summarize", "single", "chunk", "push"} =>
       /\ Len(marked) = cur - 1
       /\ Len(classified) = cur - 1
  /\ pc = "mark" =>
       /\ Len(marked) = cur - 1
       /\ Len(classified) = cur
       /\ newsletters[cur].subject \in BucketedSubjects
  /\ Len(classified) - Len(marked) \in {0, 1}
  /\ mailSent =>
       /\ Len(marked) = Len(newsletters)
       /\ \A subject \in BucketedSubjects :
            \E k \in 1..Len(marked) : newsletters[k].subject = subject
                                      /\ marked[k] = newsletters[k].id

\* The second email is being summarized while exactly the first is marked.
C11_Witness ==
  /\ pc = "chunk"
  /\ cur = 2
  /\ marked = <<newsletters[1].id>>
  /\ Len(modelCalls) = 1

====
